---- MODULE Spec2Model ----
(***************************************************************************)
(* Groth16 adapter of zokrates_core (proof_system/bellman/groth16.rs):     *)
(* the verifier-contract generator export_solidity_verifier, modelled on   *)
(* the text of the two contract templates, and setup / generate_proof /    *)
(* verify with the serialization bridge, modelled over a small pairing     *)
(* group.  Text is a TLA+ string; Len, SubSeq and \o act on its characters.*)
(***************************************************************************)
EXTENDS Integers, Sequences, FiniteSets, TLC

VARIABLES
    abi,                    \* export_solidity_verifier: the SolidityAbi argument
    vk,                     \* export_solidity_verifier: the VerificationKey argument
    pc,                     \* export_solidity_verifier: position in the function body
    template_text,          \* export_solidity_verifier: `let mut template_text`
    solidity_pairing_lib,   \* export_solidity_verifier: `solidity_pairing_lib`
    gamma_abc_repeat_text,  \* export_solidity_verifier: `let mut gamma_abc_repeat_text`
    verifier,               \* export_solidity_verifier: the String it returns
    program,                \* the ir::Prog handed to setup and generate_proof
    witness,                \* the ir::Witness handed to generate_proof
    keypair,                \* what setup returned
    proof,                  \* what generate_proof returned
    given,                  \* the (vk, proof) handed to verify
    public_inputs,          \* verify: `let public_inputs`, once the points are converted
    ans,                    \* what verify returned: "true", "false", or "abort"
    stage                   \* which of setup, generate_proof, verify have run

exportVars == <<abi, vk, pc, template_text, solidity_pairing_lib,
                gamma_abc_repeat_text, verifier>>

proofVars == <<program, witness, keypair, proof, given, public_inputs, ans, stage>>

vars == <<exportVars, proofVars>>

(***************************************************************************)
(* Bounds.                                                                 *)
(***************************************************************************)
MaxGammaAbc == 3

\* generate_proof draws its blinding factors in 0..MaxBlind
MaxBlind == 1

\* the values of a witness are in 0..MaxValue
MaxValue == 2

(***************************************************************************)
(* Text primitives: str and the regex crate, on strings.                   *)
(***************************************************************************)
Min(S) == CHOOSE m \in S : \A k \in S : m <= k

At(s, i) == IF i >= 1 /\ i <= Len(s) THEN SubSeq(s, i, i) ELSE ""

StartsAt(s, i, pat) ==
    /\ i >= 1
    /\ i + Len(pat) - 1 <= Len(s)
    /\ SubSeq(s, i, i + Len(pat) - 1) = pat

\* start positions of the occurrences of the literal pat in s
Occ(s, pat) == {i \in 1..Len(s) : StartsAt(s, i, pat)}

\* s with s[from..to] replaced by rep
Splice(s, from, to, rep) ==
    SubSeq(s, 1, from - 1) \o rep \o SubSeq(s, to + 1, Len(s))

\* Regex::new("(<lit>)").replace(s, rep): the first match only; s itself when
\* there is none.  rep holds no `$`, so it is inserted as it is.
replace_literal(s, lit, rep) ==
    IF Occ(s, lit) = {} THEN s
    ELSE LET i == Min(Occ(s, lit)) IN Splice(s, i, i + Len(lit) - 1, rep)

\* r#"(<%vk_[^i%]*%>)"# : the end of the match that starts at i, 0 when none.
\* [^i%]* is greedy and cannot cross a '%', so it stops at the first 'i' or
\* '%' after the prefix, and the match exists iff "%>" stands there.
vk_regex_end(s, i) ==
    IF ~StartsAt(s, i, "<%vk_") THEN 0
    ELSE LET stops == {j \in (i + 5)..Len(s) : At(s, j) \in {"i", "%"}}
         IN  IF stops = {} THEN 0
             ELSE IF StartsAt(s, Min(stops), "%>") THEN Min(stops) + 1 ELSE 0

\* vk_regex.replace(s, rep): the leftmost match only
vk_regex_replace(s, rep) ==
    LET starts == {i \in Occ(s, "<%vk_") : vk_regex_end(s, i) # 0}
    IN  IF starts = {} THEN s
        ELSE LET i == Min(starts) IN Splice(s, i, vk_regex_end(s, i), rep)

HexDigit == {"0", "1", "2", "3", "4", "5", "6", "7", "8", "9",
             "a", "b", "c", "d", "e", "f", "A", "B", "C", "D", "E", "F"}

\* {64} of the literal regex
HexLiteralDigits == 64

\* r"(?P<v>0[xX][0-9a-fA-F]{64})" matches at i
re_matches_at(s, i) ==
    /\ At(s, i) = "0"
    /\ At(s, i + 1) \in {"x", "X"}
    /\ i + 1 + HexLiteralDigits <= Len(s)
    /\ \A k \in 2..(HexLiteralDigits + 1) : At(s, i + k) \in HexDigit

\* re.replace_all(s, "uint256($v)"): leftmost matches, none overlapping an
\* earlier one; $v is the text of the match.
RECURSIVE re_replace_all_from(_, _, _)
re_replace_all_from(s, starts, from) ==
    LET rest == {i \in starts : i >= from}
    IN  IF rest = {} THEN SubSeq(s, from, Len(s))
        ELSE LET i == Min(rest)
                 e == i + 1 + HexLiteralDigits
             IN  SubSeq(s, from, i - 1)
                 \o "uint256(" \o SubSeq(s, i, e) \o ")"
                 \o re_replace_all_from(s, starts, e + 1)

\* Regex::replace in place of Regex::replace_all: the first match only
re_replace_first(s) ==
    LET starts == {i \in Occ(s, "0") : re_matches_at(s, i)}
    IN  IF starts = {} THEN s
        ELSE LET i == Min(starts)
             IN  Splice(s, i, i + 1 + HexLiteralDigits,
                        "uint256(" \o SubSeq(s, i, i + 1 + HexLiteralDigits) \o ")")

re_replace_all(s) ==
    re_replace_all_from(s, {i \in Occ(s, "0") : re_matches_at(s, i)}, 1)

(***************************************************************************)
(* Portable points and their text (proof_system: G1Affine, G2Affine).      *)
(***************************************************************************)
\* G1Affine(String, String): Display
G1Affine_to_string(g1) == g1[1] \o ", " \o g1[2]

\* G2Affine((String, String), (String, String)): Display
G2Affine_to_string(g2) ==
    "[" \o g2[1][1] \o ", " \o g2[1][2] \o "], ["
        \o g2[2][1] \o ", " \o g2[2][2] \o "]"

(***************************************************************************)
(* The contract templates and the Solidity libraries.                      *)
(***************************************************************************)
CONTRACT_TEMPLATE_V2 ==
    "\n"
    \o "contract Verifier {\n"
    \o "    using Pairing for *;\n"
    \o "    struct VerifyingKey {\n"
    \o "        Pairing.G1Point alpha;\n"
    \o "        Pairing.G2Point beta;\n"
    \o "        Pairing.G2Point gamma;\n"
    \o "        Pairing.G2Point delta;\n"
    \o "        Pairing.G1Point[] gamma_abc;\n"
    \o "    }\n"
    \o "    struct Proof {\n"
    \o "        Pairing.G1Point a;\n"
    \o "        Pairing.G2Point b;\n"
    \o "        Pairing.G1Point c;\n"
    \o "    }\n"
    \o "    function verifyingKey() pure internal returns (VerifyingKey memory vk) {\n"
    \o "        vk.alpha = Pairing.G1Point(<%vk_alpha%>);\n"
    \o "        vk.beta = Pairing.G2Point(<%vk_beta%>);\n"
    \o "        vk.gamma = Pairing.G2Point(<%vk_gamma%>);\n"
    \o "        vk.delta = Pairing.G2Point(<%vk_delta%>);\n"
    \o "        vk.gamma_abc = new Pairing.G1Point[](<%vk_gamma_abc_length%>);\n"
    \o "        <%vk_gamma_abc_pts%>\n"
    \o "    }\n"
    \o "    function verify(uint[] memory input, Proof memory proof) internal view returns (uint) {\n"
    \o "        uint256 snark_scalar_field = 21888242871839275222246405745257275088548364400416034343698204186575808495617;\n"
    \o "        VerifyingKey memory vk = verifyingKey();\n"
    \o "        require(input.length + 1 == vk.gamma_abc.length);\n"
    \o "        // Compute the linear combination vk_x\n"
    \o "        Pairing.G1Point memory vk_x = Pairing.G1Point(0, 0);\n"
    \o "        for (uint i = 0; i < input.length; i++) {\n"
    \o "            require(input[i] < snark_scalar_field);\n"
    \o "            vk_x = Pairing.addition(vk_x, Pairing.scalar_mul(vk.gamma_abc[i + 1], input[i]));\n"
    \o "        }\n"
    \o "        vk_x = Pairing.addition(vk_x, vk.gamma_abc[0]);\n"
    \o "        if(!Pairing.pairingProd4(\n"
    \o "             proof.a, proof.b,\n"
    \o "             Pairing.negate(vk_x), vk.gamma,\n"
    \o "             Pairing.negate(proof.c), vk.delta,\n"
    \o "             Pairing.negate(vk.alpha), vk.beta)) return 1;\n"
    \o "        return 0;\n"
    \o "    }\n"
    \o "    function verifyTx(\n"
    \o "            Proof memory proof<%input_argument%>\n"
    \o "        ) public view returns (bool r) {\n"
    \o "        uint[] memory inputValues = new uint[](input.length);\n"
    \o "        <%input_loop%>\n"
    \o "        if (verify(inputValues, proof) == 0) {\n"
    \o "            return true;\n"
    \o "        } else {\n"
    \o "            return false;\n"
    \o "        }\n"
    \o "    }\n"
    \o "}\n"

CONTRACT_TEMPLATE ==
    "\n"
    \o "contract Verifier {\n"
    \o "    using Pairing for *;\n"
    \o "    struct VerifyingKey {\n"
    \o "        Pairing.G1Point alpha;\n"
    \o "        Pairing.G2Point beta;\n"
    \o "        Pairing.G2Point gamma;\n"
    \o "        Pairing.G2Point delta;\n"
    \o "        Pairing.G1Point[] gamma_abc;\n"
    \o "    }\n"
    \o "    struct Proof {\n"
    \o "        Pairing.G1Point a;\n"
    \o "        Pairing.G2Point b;\n"
    \o "        Pairing.G1Point c;\n"
    \o "    }\n"
    \o "    function verifyingKey() pure internal returns (VerifyingKey memory vk) {\n"
    \o "        vk.alpha = Pairing.G1Point(<%vk_alpha%>);\n"
    \o "        vk.beta = Pairing.G2Point(<%vk_beta%>);\n"
    \o "        vk.gamma = Pairing.G2Point(<%vk_gamma%>);\n"
    \o "        vk.delta = Pairing.G2Point(<%vk_delta%>);\n"
    \o "        vk.gamma_abc = new Pairing.G1Point[](<%vk_gamma_abc_length%>);\n"
    \o "        <%vk_gamma_abc_pts%>\n"
    \o "    }\n"
    \o "    function verify(uint[] memory input, Proof memory proof) internal view returns (uint) {\n"
    \o "        uint256 snark_scalar_field = 21888242871839275222246405745257275088548364400416034343698204186575808495617;\n"
    \o "        VerifyingKey memory vk = verifyingKey();\n"
    \o "        require(input.length + 1 == vk.gamma_abc.length);\n"
    \o "        // Compute the linear combination vk_x\n"
    \o "        Pairing.G1Point memory vk_x = Pairing.G1Point(0, 0);\n"
    \o "        for (uint i = 0; i < input.length; i++) {\n"
    \o "            require(input[i] < snark_scalar_field);\n"
    \o "            vk_x = Pairing.addition(vk_x, Pairing.scalar_mul(vk.gamma_abc[i + 1], input[i]));\n"
    \o "        }\n"
    \o "        vk_x = Pairing.addition(vk_x, vk.gamma_abc[0]);\n"
    \o "        if(!Pairing.pairingProd4(\n"
    \o "             proof.a, proof.b,\n"
    \o "             Pairing.negate(vk_x), vk.gamma,\n"
    \o "             Pairing.negate(proof.c), vk.delta,\n"
    \o "             Pairing.negate(vk.alpha), vk.beta)) return 1;\n"
    \o "        return 0;\n"
    \o "    }\n"
    \o "    function verifyTx(\n"
    \o "            uint[2] memory a,\n"
    \o "            uint[2][2] memory b,\n"
    \o "            uint[2] memory c<%input_argument%>\n"
    \o "        ) public view returns (bool r) {\n"
    \o "        Proof memory proof;\n"
    \o "        proof.a = Pairing.G1Point(a[0], a[1]);\n"
    \o "        proof.b = Pairing.G2Point([b[0][0], b[0][1]], [b[1][0], b[1][1]]);\n"
    \o "        proof.c = Pairing.G1Point(c[0], c[1]);\n"
    \o "        uint[] memory inputValues = new uint[](<%vk_input_length%>);\n"
    \o "        <%input_loop%>\n"
    \o "        if (verify(inputValues, proof) == 0) {\n"
    \o "            return true;\n"
    \o "        } else {\n"
    \o "            return false;\n"
    \o "        }\n"
    \o "    }\n"
    \o "}\n"

\* proof_system::solidity: the three library texts, abridged
SOLIDITY_G2_ADDITION_LIB ==
    "library BN256G2 {\n"
    \o "    uint256 internal constant FIELD_MODULUS = 0x30644e72e131a029b85045b68181585d97816a916871ca8d3c208c16d87cfd47;\n"
    \o "}\n"

SOLIDITY_PAIRING_LIB == "library Pairing {\n}\n"

SOLIDITY_PAIRING_LIB_V2 == "pragma experimental ABIEncoderV2;\nlibrary Pairing {\n}\n"

(***************************************************************************)
(* The pairing engine, over a small curve in place of BN128:               *)
(* G1 on y^2 = x^3 + 3 over Fq, G2 on y^2 = x^3 + (1 + u) over             *)
(* Fq2 = Fq[u]/(u^2 + 1), both of prime order FrModulus.  A point is known *)
(* by its coordinates; the group law and the pairing go through the table  *)
(* of the multiples of the generator.                                      *)
(***************************************************************************)
FqModulus == 7

FrModulus == 13

\* the k-th entry is k times the generator of G1
G1Table ==
    <<<<1, 2>>, <<6, 3>>, <<2, 2>>, <<4, 5>>, <<3, 3>>, <<5, 3>>,
      <<5, 4>>, <<3, 4>>, <<4, 2>>, <<2, 5>>, <<6, 4>>, <<1, 5>>>>

\* the k-th entry is k times the generator of G2, a coordinate being <<c0, c1>>
G2Table ==
    <<<<<<1, 6>>, <<6, 4>>>>, <<<<6, 1>>, <<2, 6>>>>, <<<<2, 5>>, <<6, 4>>>>,
      <<<<4, 3>>, <<1, 3>>>>, <<<<3, 4>>, <<2, 6>>>>, <<<<5, 2>>, <<2, 6>>>>,
      <<<<5, 2>>, <<5, 1>>>>, <<<<3, 4>>, <<5, 1>>>>, <<<<4, 3>>, <<6, 4>>>>,
      <<<<2, 5>>, <<1, 3>>>>, <<<<6, 1>>, <<5, 1>>>>, <<<<1, 6>>, <<1, 3>>>>>>

G1Zero == [x |-> 0, y |-> 1, infinity |-> TRUE]

G2Zero == [x |-> <<0, 0>>, y |-> <<1, 0>>, infinity |-> TRUE]

G1Point(k) ==
    IF k % FrModulus = 0 THEN G1Zero
    ELSE [x |-> G1Table[k % FrModulus][1], y |-> G1Table[k % FrModulus][2],
          infinity |-> FALSE]

G2Point(k) ==
    IF k % FrModulus = 0 THEN G2Zero
    ELSE [x |-> G2Table[k % FrModulus][1], y |-> G2Table[k % FrModulus][2],
          infinity |-> FALSE]

G1Log(p) == CHOOSE k \in 0..(FrModulus - 1) : G1Point(k) = p

G2Log(p) == CHOOSE k \in 0..(FrModulus - 1) : G2Point(k) = p

G1Add(p, r) == G1Point(G1Log(p) + G1Log(r))

G1Mul(p, k) == G1Point(G1Log(p) * k)

G2Add(p, r) == G2Point(G2Log(p) + G2Log(r))

G2Mul(p, k) == G2Point(G2Log(p) * k)

\* e(p, r), written additively in the target group
Pairing(p, r) == (G1Log(p) * G2Log(r)) % FrModulus

FrInverse(k) == CHOOSE i \in 1..(FrModulus - 1) : (i * k) % FrModulus = 1

Fq2Add(a, b) == <<(a[1] + b[1]) % FqModulus, (a[2] + b[2]) % FqModulus>>

Fq2Mul(a, b) ==
    <<(a[1] * b[1] + FqModulus * FqModulus - a[2] * b[2]) % FqModulus,
      (a[1] * b[2] + a[2] * b[1]) % FqModulus>>

\* CurveAffine::from_xy_checked for G1: Err (ok = FALSE) when off the curve;
\* the pair (0, 0) stands for the point at infinity
G1_from_xy_checked(x, y) ==
    IF x = 0 /\ y = 0 THEN [ok |-> TRUE, v |-> G1Zero]
    ELSE IF (y * y) % FqModulus = (x * x * x + 3) % FqModulus
         THEN [ok |-> TRUE, v |-> [x |-> x, y |-> y, infinity |-> FALSE]]
         ELSE [ok |-> FALSE, v |-> G1Zero]

G2_from_xy_checked(x, y) ==
    IF x = <<0, 0>> /\ y = <<0, 0>> THEN [ok |-> TRUE, v |-> G2Zero]
    ELSE IF Fq2Mul(y, y) = Fq2Add(Fq2Mul(Fq2Mul(x, x), x), <<1, 1>>)
         THEN [ok |-> TRUE, v |-> [x |-> x, y |-> y, infinity |-> FALSE]]
         ELSE [ok |-> FALSE, v |-> G2Zero]

(***************************************************************************)
(* Hex text of field elements.                                             *)
(***************************************************************************)
HexChars == "0123456789abcdef"

\* the number of hex digits an element is written with
HexWidth == 2

HexChar(d) == SubSeq(HexChars, d + 1, d + 1)

RECURSIVE HexText(_, _)
HexText(n, width) ==
    IF width = 0 THEN "" ELSE HexText(n \div 16, width - 1) \o HexChar(n % 16)

to_hex(n) == "0x" \o HexText(n, HexWidth)

HexValue(c) ==
    IF c \in {"A", "B", "C", "D", "E", "F"}
    THEN 10 + CHOOSE d \in 0..5 : SubSeq("ABCDEF", d + 1, d + 1) = c
    ELSE CHOOSE d \in 0..15 : HexChar(d) = c

IsHexText(s) == Len(s) > 0 /\ \A i \in 1..Len(s) : At(s, i) \in HexDigit

RECURSIVE Base16(_)
Base16(s) ==
    IF Len(s) = 0 THEN 0
    ELSE 16 * Base16(SubSeq(s, 1, Len(s) - 1)) + HexValue(At(s, Len(s)))

\* pairing::from_hex: one optional 0x, then hex digits of an element of the
\* field; -1 for Err
from_hex(s) ==
    LET digits == IF StartsAt(s, 1, "0x") THEN SubSeq(s, 3, Len(s)) ELSE s
    IN  IF IsHexText(digits) /\ Base16(digits) < FqModulus THEN Base16(digits)
        ELSE -1

\* Field::try_from_str(s, 16): the element the base-16 text s denotes, which
\* must be below the modulus; -1 for Err
try_from_str(s) ==
    IF IsHexText(s) /\ Base16(s) < FrModulus THEN Base16(s) ELSE -1

\* str::trim_start_matches(pat): every leading repetition of pat is removed
RECURSIVE trim_start_matches(_, _)
trim_start_matches(s, pat) ==
    IF StartsAt(s, 1, pat)
    THEN trim_start_matches(SubSeq(s, Len(pat) + 1, Len(s)), pat)
    ELSE s

\* Field::new_fq2(c0, c1); -1 in a limb for a failed from_hex
new_fq2(c0, c1) == <<from_hex(c0), from_hex(c1)>>

(***************************************************************************)
(* proof_system::bellman: backend values to portable text.                 *)
(***************************************************************************)
parse_g1(p) ==
    IF p.infinity THEN <<to_hex(0), to_hex(0)>> ELSE <<to_hex(p.x), to_hex(p.y)>>

\* the limbs of a coordinate are written c1 first
parse_g2(p) ==
    IF p.infinity THEN <<<<to_hex(0), to_hex(0)>>, <<to_hex(0), to_hex(0)>>>>
    ELSE <<<<to_hex(p.x[2]), to_hex(p.x[1])>>, <<to_hex(p.y[2]), to_hex(p.y[1])>>>>

parse_fr(e) == to_hex(e)

(***************************************************************************)
(* mod serialization                                                       *)
(***************************************************************************)
to_g1(g1) ==
    LET x == from_hex(g1[1])
        y == from_hex(g1[2])
    IN  IF x = -1 \/ y = -1 THEN [ok |-> FALSE, v |-> G1Zero]
        ELSE G1_from_xy_checked(x, y)

\* to_g2 with the limbs taken in the order they are stored
to_g2_in_order(g2) ==
    LET x == new_fq2(g2[1][1], g2[1][2])
        y == new_fq2(g2[2][1], g2[2][2])
    IN  IF -1 \in {x[1], x[2], y[1], y[2]} THEN [ok |-> FALSE, v |-> G2Zero]
        ELSE G2_from_xy_checked(x, y)

\* apparently the order is reversed
to_g2(g2) ==
    LET x == new_fq2(g2[1][2], g2[1][1])
        y == new_fq2(g2[2][2], g2[2][1])
    IN  IF -1 \in {x[1], x[2], y[1], y[2]} THEN [ok |-> FALSE, v |-> G2Zero]
        ELSE G2_from_xy_checked(x, y)

(***************************************************************************)
(* ProofPoints and VerificationKey                                         *)
(***************************************************************************)
ProofPoints_into_bellman(points) ==
    LET a == to_g1(points.a)
        b == to_g2(points.b)
        c == to_g1(points.c)
    IN  [ok |-> a.ok /\ b.ok /\ c.ok, v |-> [a |-> a.v, b |-> b.v, c |-> c.v]]

ProofPoints_from_bellman(bproof) ==
    [a |-> parse_g1(bproof.a), b |-> parse_g2(bproof.b), c |-> parse_g1(bproof.c)]

VerificationKey_into_bellman(key) ==
    LET alpha == to_g1(key.alpha)
        beta == to_g2(key.beta)
        gamma == to_g2(key.gamma)
        delta == to_g2(key.delta)
        ic == [i \in 1..Len(key.gamma_abc) |-> to_g1(key.gamma_abc[i])]
    IN  [ok |-> /\ alpha.ok /\ beta.ok /\ gamma.ok /\ delta.ok
                /\ \A i \in 1..Len(ic) : ic[i].ok,
         v  |-> [alpha_g1 |-> alpha.v,
                 beta_g1  |-> G1Point(1),   \* not used during verification
                 beta_g2  |-> beta.v,
                 gamma_g2 |-> gamma.v,
                 delta_g1 |-> G1Point(1),   \* not used during verification
                 delta_g2 |-> delta.v,
                 ic       |-> [i \in 1..Len(ic) |-> ic[i].v]]]

(***************************************************************************)
(* Programs: one rank-1 constraint (U.a) * (V.a) = (W.a) over the variables*)
(* ~one, the public ones, then the private ones; a row holds the           *)
(* coefficient of ~one first.                                              *)
(***************************************************************************)
\* tests::verify: main(_0) -> ~out_0 with _0 * 1 = ~out_0, both public
TestProgram ==
    [public |-> 2, U |-> <<0, 1, 0>>, V |-> <<1, 0, 0>>, W |-> <<0, 0, 1>>]

\* ~out_0 = x * y with x, y private
ProductProgram ==
    [public |-> 1, U |-> <<0, 0, 1, 0>>, V |-> <<0, 0, 0, 1>>,
     W |-> <<0, 1, 0, 0>>]

\* x * x = 4 with x private: no public input
NoInputProgram ==
    [public |-> 0, U |-> <<0, 1>>, V |-> <<0, 1>>, W |-> <<4, 0>>]

Programs == {TestProgram, ProductProgram, NoInputProgram}

RECURSIVE Dot(_, _, _)
Dot(row, a, k) ==
    IF k = 0 THEN 0 ELSE (Dot(row, a, k - 1) + row[k] * a[k]) % FrModulus

\* the full assignment: ~one, then the values of the witness
Assignment(w) == <<1>> \o w

Satisfies(prog, w) ==
    LET a == Assignment(w)
        n == Len(a)
    IN  (Dot(prog.U, a, n) * Dot(prog.V, a, n)) % FrModulus = Dot(prog.W, a, n)

Witnesses(prog, maxValue) ==
    {w \in [1..(Len(prog.U) - 1) -> 0..maxValue] : Satisfies(prog, w)}

(***************************************************************************)
(* Computation and bellman::groth16: key generation, proving, pairing check*)
(***************************************************************************)
\* Computation::without_witness(program).setup(), with the secrets it draws
Computation_setup(prog, alpha, beta, gamma, delta) ==
    LET n == Len(prog.U)
        k(i) == (beta * prog.U[i] + alpha * prog.V[i] + prog.W[i]) % FrModulus
    IN  [vk |-> [alpha_g1 |-> G1Point(alpha),
                 beta_g1  |-> G1Point(beta),
                 beta_g2  |-> G2Point(beta),
                 gamma_g2 |-> G2Point(gamma),
                 delta_g1 |-> G1Point(delta),
                 delta_g2 |-> G2Point(delta),
                 ic |-> [i \in 1..(prog.public + 1) |->
                            G1Point(k(i) * FrInverse(gamma))]],
         a  |-> [i \in 1..n |-> G1Point(prog.U[i])],
         b_g1 |-> [i \in 1..n |-> G1Point(prog.V[i])],
         b_g2 |-> [i \in 1..n |-> G2Point(prog.V[i])],
         l  |-> [i \in 1..(n - prog.public - 1) |->
                    G1Point(k(i + prog.public + 1) * FrInverse(delta))]]

RECURSIVE G1Sum(_, _, _)
G1Sum(points, scalars, k) ==
    IF k = 0 THEN G1Zero
    ELSE G1Add(G1Sum(points, scalars, k - 1), G1Mul(points[k], scalars[k]))

RECURSIVE G2Sum(_, _, _)
G2Sum(points, scalars, k) ==
    IF k = 0 THEN G2Zero
    ELSE G2Add(G2Sum(points, scalars, k - 1), G2Mul(points[k], scalars[k]))

\* computation.prove(&params), with the blinding factors r and s it draws; the
\* quotient polynomial of a satisfied single constraint is zero
Computation_prove(w, params, r, s) ==
    LET asg == Assignment(w)
        n == Len(asg)
        np == Len(params.vk.ic)
        priv == [i \in 1..(n - np) |-> asg[i + np]]
        a == G1Add(G1Add(params.vk.alpha_g1, G1Sum(params.a, asg, n)),
                   G1Mul(params.vk.delta_g1, r))
        b1 == G1Add(G1Add(params.vk.beta_g1, G1Sum(params.b_g1, asg, n)),
                    G1Mul(params.vk.delta_g1, s))
        b2 == G2Add(G2Add(params.vk.beta_g2, G2Sum(params.b_g2, asg, n)),
                    G2Mul(params.vk.delta_g2, s))
        c == G1Add(G1Add(G1Sum(params.l, priv, n - np), G1Mul(a, s)),
                   G1Add(G1Mul(b1, r),
                         G1Mul(params.vk.delta_g1, FrModulus * FrModulus - r * s)))
    IN  [a |-> a, b |-> b2, c |-> c]

\* computation.public_inputs_values(): the public variables, ~one left out
public_inputs_values(prog, w) == SubSeq(w, 1, prog.public)

\* bellman::groth16::verify_proof(&pvk, &proof, &public_inputs): Err ("abort"
\* once unwrapped) unless there is one input per entry of ic after the first
verify_proof(pvk, bproof, scalars) ==
    IF Len(scalars) + 1 # Len(pvk.ic) THEN "abort"
    ELSE LET acc == G1Add(pvk.ic[1], G1Sum(Tail(pvk.ic), scalars, Len(scalars)))
         IN  IF Pairing(bproof.a, bproof.b)
                  = (Pairing(pvk.alpha_g1, pvk.beta_g2)
                     + Pairing(acc, pvk.gamma_g2)
                     + Pairing(bproof.c, pvk.delta_g2)) % FrModulus
             THEN "true" ELSE "false"

(***************************************************************************)
(* impl ProofSystem for G16: setup, generate_proof, verify                 *)
(***************************************************************************)
\* setup_vk with gamma and delta taken from each other's field
setup_vk_crossed(parameters) ==
    [alpha |-> parse_g1(parameters.vk.alpha_g1),
     beta  |-> parse_g2(parameters.vk.beta_g2),
     gamma |-> parse_g2(parameters.vk.delta_g2),
     delta |-> parse_g2(parameters.vk.gamma_g2),
     gamma_abc |-> [i \in 1..Len(parameters.vk.ic) |->
                       parse_g1(parameters.vk.ic[i])]]

\* the VerificationKey setup builds from the parameters
setup_vk(parameters) ==
    [alpha |-> parse_g1(parameters.vk.alpha_g1),
     beta  |-> parse_g2(parameters.vk.beta_g2),
     gamma |-> parse_g2(parameters.vk.gamma_g2),
     delta |-> parse_g2(parameters.vk.delta_g2),
     gamma_abc |-> [i \in 1..Len(parameters.vk.ic) |->
                       parse_g1(parameters.vk.ic[i])]]

\* SetupKeypair::new(vk, pk): pk holds the parameters as they were written
setup(prog, alpha, beta, gamma, delta) ==
    LET parameters == Computation_setup(prog, alpha, beta, gamma, delta)
    IN  [vk |-> setup_vk(parameters), pk |-> parameters]

generate_proof(prog, w, proving_key, r, s) ==
    LET bproof == Computation_prove(w, proving_key, r, s)
        values == public_inputs_values(prog, w)
    IN  [proof  |-> ProofPoints_from_bellman(bproof),
         inputs |-> [i \in 1..Len(values) |-> parse_fr(values[i])],
         raw    |-> bproof]

\* the scalars verify parses of proof.inputs, -1 where the expect fails
verify_public_inputs(inputs) ==
    [i \in 1..Len(inputs) |-> try_from_str(trim_start_matches(inputs[i], "0x"))]

\* "true", "false", or "abort" when an unwrap or expect panics
verify(key, prf) ==
    LET bvk == VerificationKey_into_bellman(key)
        bellman_proof == ProofPoints_into_bellman(prf.proof)
        scalars == verify_public_inputs(prf.inputs)
    IN  IF ~bvk.ok THEN "abort"
        ELSE IF ~bellman_proof.ok THEN "abort"
        ELSE IF \E i \in 1..Len(scalars) : scalars[i] = -1 THEN "abort"
        ELSE verify_proof(bvk.v, bellman_proof.v, scalars)

(***************************************************************************)
(* export_solidity_verifier(vk, abi)                                       *)
(***************************************************************************)
\* the secrets key generation may draw: nonzero scalars
SecretDraws ==
    {[alpha |-> 1, beta |-> 2, gamma |-> 3, delta |-> 4],
     [alpha |-> 2, beta |-> 2, gamma |-> 1, delta |-> 1],
     [alpha |-> 3, beta |-> 1, gamma |-> 4, delta |-> 2],
     [alpha |-> 12, beta |-> 5, gamma |-> 7, delta |-> 11]}

NoKeypair == [vk |-> <<>>, pk |-> <<>>]

NoProof == [proof |-> <<>>, inputs |-> <<>>, raw |-> <<>>]

R4(s) == s \o s \o s \o s

\* "0x" and 64 times the digit d: a coordinate of the width setup writes
Coord(d) == "0x" \o R4(R4(R4(d)))

G1Pool == {<<Coord("1"), Coord("a")>>, <<Coord("B"), Coord("2")>>}

\* the four single points of a key: alpha, beta, gamma, delta
KeyHeads ==
    {[alpha |-> <<Coord("7"), Coord("8")>>,
      beta  |-> <<<<Coord("3"), Coord("c")>>, <<Coord("4"), Coord("d")>>>>,
      gamma |-> <<<<Coord("E"), Coord("5")>>, <<Coord("f"), Coord("6")>>>>,
      delta |-> <<<<Coord("9"), Coord("0")>>, <<Coord("D"), Coord("b")>>>>],
     [alpha |-> <<"0X" \o R4(R4(R4("e"))), Coord("F")>>,
      beta  |-> <<<<Coord("A"), Coord("C")>>, <<Coord("1"), Coord("1")>>>>,
      gamma |-> <<<<Coord("2"), Coord("3")>>, <<Coord("5"), Coord("4")>>>>,
      delta |-> <<<<Coord("2"), Coord("3")>>, <<Coord("5"), Coord("4")>>>>]}

AbiSet == {"V1", "V2"}

VerificationKeys ==
    {[alpha |-> h.alpha, beta |-> h.beta, gamma |-> h.gamma, delta |-> h.delta,
      gamma_abc |-> abc] :
        h \in KeyHeads,
        abc \in UNION {[1..n -> G1Pool] : n \in 1..MaxGammaAbc}}

Init ==
    /\ abi \in AbiSet
    /\ vk \in VerificationKeys
    /\ pc = "start"
    /\ template_text = ""
    /\ solidity_pairing_lib = ""
    /\ gamma_abc_repeat_text = ""
    /\ verifier = ""
    /\ program = TestProgram
    /\ witness = <<>>
    /\ keypair = NoKeypair
    /\ proof = NoProof
    /\ given = [name |-> "none", vk |-> <<>>, proof |-> NoProof]
    /\ public_inputs = <<>>
    /\ ans = ""
    /\ stage = "idle"

\* let (mut template_text, solidity_pairing_lib) = match abi { ... }
SelectTemplate ==
    /\ pc = "start"
    /\ template_text' = IF abi = "V1" THEN CONTRACT_TEMPLATE ELSE CONTRACT_TEMPLATE_V2
    /\ solidity_pairing_lib' =
           IF abi = "V1" THEN SOLIDITY_PAIRING_LIB ELSE SOLIDITY_PAIRING_LIB_V2
    /\ pc' = "alpha"
    /\ UNCHANGED <<abi, vk, gamma_abc_repeat_text, verifier>>
    /\ UNCHANGED proofVars

ReplaceAlpha ==
    /\ pc = "alpha"
    /\ template_text' = vk_regex_replace(template_text, G1Affine_to_string(vk.alpha))
    /\ pc' = "beta"
    /\ UNCHANGED <<abi, vk, solidity_pairing_lib, gamma_abc_repeat_text, verifier>>
    /\ UNCHANGED proofVars

ReplaceBeta ==
    /\ pc = "beta"
    /\ template_text' = vk_regex_replace(template_text, G2Affine_to_string(vk.beta))
    /\ pc' = "gamma"
    /\ UNCHANGED <<abi, vk, solidity_pairing_lib, gamma_abc_repeat_text, verifier>>
    /\ UNCHANGED proofVars

ReplaceGamma ==
    /\ pc = "gamma"
    /\ template_text' = vk_regex_replace(template_text, G2Affine_to_string(vk.gamma))
    /\ pc' = "delta"
    /\ UNCHANGED <<abi, vk, solidity_pairing_lib, gamma_abc_repeat_text, verifier>>
    /\ UNCHANGED proofVars

ReplaceDelta ==
    /\ pc = "delta"
    /\ template_text' = vk_regex_replace(template_text, G2Affine_to_string(vk.delta))
    /\ pc' = "gamma_abc_length"
    /\ UNCHANGED <<abi, vk, solidity_pairing_lib, gamma_abc_repeat_text, verifier>>
    /\ UNCHANGED proofVars

gamma_abc_count == Len(vk.gamma_abc)

ReplaceGammaAbcLength ==
    /\ pc = "gamma_abc_length"
    /\ template_text' = replace_literal(template_text, "<%vk_gamma_abc_length%>",
                                        ToString(gamma_abc_count))
    /\ pc' = "input_length"
    /\ UNCHANGED <<abi, vk, solidity_pairing_lib, gamma_abc_repeat_text, verifier>>
    /\ UNCHANGED proofVars

ReplaceInputLength ==
    /\ pc = "input_length"
    /\ template_text' = replace_literal(template_text, "<%vk_input_length%>",
                                        ToString(gamma_abc_count - 1))
    /\ pc' = "input_loop"
    /\ UNCHANGED <<abi, vk, solidity_pairing_lib, gamma_abc_repeat_text, verifier>>
    /\ UNCHANGED proofVars

InputLoopText ==
    "\n"
    \o "        for(uint i = 0; i < input.length; i++){\n"
    \o "            inputValues[i] = input[i];\n"
    \o "        }"

\* feed input values only if there are any
ReplaceInputLoop ==
    /\ pc = "input_loop"
    /\ template_text' =
           IF gamma_abc_count > 1
           THEN replace_literal(template_text, "<%input_loop%>", InputLoopText)
           ELSE replace_literal(template_text, "<%input_loop%>", "")
    /\ pc' = "input_argument"
    /\ UNCHANGED <<abi, vk, solidity_pairing_lib, gamma_abc_repeat_text, verifier>>
    /\ UNCHANGED proofVars

\* the array sized by the count of gamma_abc
InputArgumentText_count(count) == ", uint[" \o ToString(count) \o "] memory input"

InputArgumentText(count) == ", uint[" \o ToString(count - 1) \o "] memory input"

\* take input values as argument only if there are any
ReplaceInputArgument ==
    /\ pc = "input_argument"
    /\ template_text' =
           IF gamma_abc_count > 1
           THEN replace_literal(template_text, "<%input_argument%>",
                                InputArgumentText(gamma_abc_count))
           ELSE replace_literal(template_text, "<%input_argument%>", "")
    /\ pc' = "gamma_abc_pts"
    /\ UNCHANGED <<abi, vk, solidity_pairing_lib, gamma_abc_repeat_text, verifier>>
    /\ UNCHANGED proofVars

\* the separator pushed after the last entry too
PushSeparator_always(i, count) == i < count

\* the loop condition `i < gamma_abc_count - 1`, i counted from 0
PushSeparator(i, count) == i < count - 1

\* the entries numbered from 1
RECURSIVE RepeatText_from_one(_, _)
RepeatText_from_one(gamma_abc, k) ==
    IF k = 0 THEN ""
    ELSE RepeatText_from_one(gamma_abc, k - 1)
         \o "vk.gamma_abc[" \o ToString(k) \o "] = Pairing.G1Point("
         \o G1Affine_to_string(gamma_abc[k]) \o ");"
         \o (IF k - 1 < Len(gamma_abc) - 1 THEN "\n        " ELSE "")

\* for (i, g1) in vk.gamma_abc.iter().enumerate() { ... }: the text after the
\* entries 0..k-1 have been pushed
RECURSIVE RepeatText(_, _)
RepeatText(gamma_abc, k) ==
    IF k = 0 THEN ""
    ELSE RepeatText(gamma_abc, k - 1)
         \o "vk.gamma_abc[" \o ToString(k - 1) \o "] = Pairing.G1Point("
         \o G1Affine_to_string(gamma_abc[k]) \o ");"
         \o (IF PushSeparator(k - 1, Len(gamma_abc)) THEN "\n        " ELSE "")

ReplaceGammaAbcPts ==
    /\ pc = "gamma_abc_pts"
    /\ gamma_abc_repeat_text' = RepeatText(vk.gamma_abc, gamma_abc_count)
    /\ template_text' = replace_literal(template_text, "<%vk_gamma_abc_pts%>",
                                        gamma_abc_repeat_text')
    /\ pc' = "uint256"
    /\ UNCHANGED <<abi, vk, solidity_pairing_lib, verifier>>
    /\ UNCHANGED proofVars

WrapLiterals ==
    /\ pc = "uint256"
    /\ template_text' = re_replace_all(template_text)
    /\ pc' = "format"
    /\ UNCHANGED <<abi, vk, solidity_pairing_lib, gamma_abc_repeat_text, verifier>>
    /\ UNCHANGED proofVars

\* format!("{}{}{}", SOLIDITY_G2_ADDITION_LIB, solidity_pairing_lib, template_text)
Format ==
    /\ pc = "format"
    /\ verifier' = SOLIDITY_G2_ADDITION_LIB \o solidity_pairing_lib \o template_text
    /\ pc' = "done"
    /\ UNCHANGED <<abi, vk, solidity_pairing_lib, template_text, gamma_abc_repeat_text>>
    /\ UNCHANGED proofVars

Next ==
    \/ SelectTemplate
    \/ ReplaceAlpha
    \/ ReplaceBeta
    \/ ReplaceGamma
    \/ ReplaceDelta
    \/ ReplaceGammaAbcLength
    \/ ReplaceInputLength
    \/ ReplaceInputLoop
    \/ ReplaceInputArgument
    \/ ReplaceGammaAbcPts
    \/ WrapLiterals
    \/ Format

Spec == Init /\ [][Next]_vars

(***************************************************************************)
(* A run of setup, generate_proof and verify.  verify is handed the key and*)
(* the proof as they were made, or with one part of them replaced.         *)
(***************************************************************************)
OffCurveG1 == <<"0x01", "0x01">>

BadHexG1 == <<"0xzz", "0x02">>

OutOfFieldG1 == <<"0x01", "0x09">>

\* g with the limbs of its x coordinate exchanged
SwappedG2(g) == <<<<g[1][2], g[1][1]>>, g[2]>>

BadHexG2(g) == <<<<"0x0g", g[1][2]>>, g[2]>>

\* texts offered to verify in place of the public input s
InputTexts(s) ==
    {SubSeq(s, 3, Len(s)),   \* the prefix dropped
     "0x" \o s,              \* the prefix doubled
     "0X" \o SubSeq(s, 3, Len(s)),
     "0x0d", "0xg1", "0x"}

DropLast(q) == SubSeq(q, 1, Len(q) - 1)

Alterations(key, prf) ==
    {[name |-> "none", vk |-> key, proof |-> prf]}
    \cup {[name |-> "vk.alpha", vk |-> [key EXCEPT !.alpha = g], proof |-> prf] :
            g \in {OffCurveG1, OutOfFieldG1}}
    \cup {[name |-> "vk.gamma", vk |-> [key EXCEPT !.gamma = g], proof |-> prf] :
            g \in {SwappedG2(key.gamma), BadHexG2(key.gamma)}}
    \cup {[name |-> "vk.gamma_abc", vk |-> [key EXCEPT !.gamma_abc = abc],
           proof |-> prf] :
            abc \in (IF Len(key.gamma_abc) > 1 THEN {DropLast(key.gamma_abc)} ELSE {})
                    \cup {[key.gamma_abc EXCEPT ![1] = OffCurveG1]}}
    \cup {[name |-> "proof.a", vk |-> key, proof |-> [prf EXCEPT !.proof.a = g]] :
            g \in {OffCurveG1, BadHexG1, parse_g1(G1Point(5))}}
    \cup {[name |-> "proof.b", vk |-> key, proof |-> [prf EXCEPT !.proof.b = g]] :
            g \in {SwappedG2(prf.proof.b), BadHexG2(prf.proof.b)}}
    \cup UNION {{[name |-> "inputs", vk |-> key,
                   proof |-> [prf EXCEPT !.inputs[i] = s]] :
                     s \in InputTexts(prf.inputs[i])} : i \in 1..Len(prf.inputs)}
    \cup {[name |-> "inputs.len", vk |-> key, proof |-> [prf EXCEPT !.inputs = q]] :
            q \in {Append(prf.inputs, "0x00")}
                  \cup (IF Len(prf.inputs) > 0 THEN {DropLast(prf.inputs)} ELSE {})}

InitProof ==
    /\ program \in Programs
    /\ stage = "start"
    /\ witness = <<>>
    /\ keypair = NoKeypair
    /\ proof = NoProof
    /\ given = [name |-> "none", vk |-> <<>>, proof |-> NoProof]
    /\ public_inputs = <<>>
    /\ ans = ""
    /\ abi = "V1"
    /\ vk = <<>>
    /\ pc = "idle"
    /\ template_text = ""
    /\ solidity_pairing_lib = ""
    /\ gamma_abc_repeat_text = ""
    /\ verifier = ""

Setup ==
    /\ stage = "start"
    /\ \E d \in SecretDraws :
          keypair' = setup(program, d.alpha, d.beta, d.gamma, d.delta)
    /\ stage' = "keys"
    /\ UNCHANGED <<program, witness, proof, given, public_inputs, ans>>
    /\ UNCHANGED exportVars

GenerateProof ==
    /\ stage = "keys"
    /\ \E w \in Witnesses(program, MaxValue), r \in 0..MaxBlind, s \in 0..MaxBlind :
          /\ witness' = w
          /\ proof' = generate_proof(program, w, keypair.pk, r, s)
    /\ stage' = "proved"
    /\ UNCHANGED <<program, keypair, given, public_inputs, ans>>
    /\ UNCHANGED exportVars

Verify ==
    /\ stage = "proved"
    /\ \E g \in Alterations(keypair.vk, proof) :
          /\ given' = g
          /\ public_inputs' =
                IF VerificationKey_into_bellman(g.vk).ok
                   /\ ProofPoints_into_bellman(g.proof.proof).ok
                THEN verify_public_inputs(g.proof.inputs) ELSE <<>>
          /\ ans' = verify(g.vk, g.proof)
    /\ stage' = "verified"
    /\ UNCHANGED <<program, witness, keypair, proof>>
    /\ UNCHANGED exportVars

NextProof ==
    \/ Setup
    \/ GenerateProof
    \/ Verify

SpecProof == InitProof /\ [][NextProof]_vars

(***************************************************************************)
(* Vocabulary of the properties of export_solidity_verifier.               *)
(***************************************************************************)
Count(s, pat) == Cardinality(Occ(s, pat))

\* s with the one occurrence of the placeholder ph replaced by text; "" (no
\* text of the generator) unless ph occurs exactly once
Filled(s, ph, text) ==
    IF Count(s, ph) # 1 THEN ""
    ELSE LET i == CHOOSE j \in Occ(s, ph) : TRUE
         IN  SubSeq(s, 1, i - 1) \o text \o SubSeq(s, i + Len(ph), Len(s))

TemplateOf(a) == IF a = "V1" THEN CONTRACT_TEMPLATE ELSE CONTRACT_TEMPLATE_V2

DecDigit == <<"0", "1", "2", "3", "4", "5", "6", "7", "8", "9">>

RECURSIVE Decimal(_)
Decimal(n) ==
    IF n < 10 THEN DecDigit[n + 1] ELSE Decimal(n \div 10) \o DecDigit[(n % 10) + 1]

\* the text of s from the head of the entry point verifyTx on
VerifyTx(s) ==
    IF Occ(s, "function verifyTx(") = {} THEN ""
    ELSE SubSeq(s, Min(Occ(s, "function verifyTx(")), Len(s))

IdentChar ==
    {"a", "b", "c", "d", "e", "f", "g", "h", "i", "j", "k", "l", "m", "n", "o",
     "p", "q", "r", "s", "t", "u", "v", "w", "x", "y", "z", "A", "B", "C", "D",
     "E", "F", "G", "H", "I", "J", "K", "L", "M", "N", "O", "P", "Q", "R", "S",
     "T", "U", "V", "W", "X", "Y", "Z", "0", "1", "2", "3", "4", "5", "6", "7",
     "8", "9", "_"}

\* positions where the identifier id stands in s as a whole word
WordOcc(s, id) ==
    {i \in Occ(s, id) : At(s, i - 1) \notin IdentChar
                        /\ At(s, i + Len(id)) \notin IdentChar}

\* the declarations of a parameter or variable named `input` in s
InputDecls(s) ==
    {i \in Occ(s, "memory input") : At(s, i + Len("memory input")) \notin IdentChar}

InputCopyLoops(s) == Count(s, "inputValues[i] = input[i];")

AssignmentText(i, g1) ==
    "vk.gamma_abc[" \o Decimal(i) \o "] = Pairing.G1Point("
        \o g1[1] \o ", " \o g1[2] \o ");"

\* the assignments of the entries i.. of gamma_abc, i counted from 0, with a
\* newline (and the indentation of the template) between two of them
RECURSIVE AssignmentsFrom(_, _)
AssignmentsFrom(gamma_abc, i) ==
    IF i >= Len(gamma_abc) THEN ""
    ELSE AssignmentText(i, gamma_abc[i + 1])
         \o (IF i + 1 < Len(gamma_abc)
             THEN "\n        " \o AssignmentsFrom(gamma_abc, i + 1) ELSE "")

EndsWith(s, suffix) ==
    Len(s) >= Len(suffix) /\ SubSeq(s, Len(s) - Len(suffix) + 1, Len(s)) = suffix

\* C3: the four first-match substitutions of the generic pattern fill
\* <%vk_alpha%>, <%vk_beta%>, <%vk_gamma%>, <%vk_delta%> with the texts of
\* alpha, beta, gamma, delta in that order, and after the fourth one the
\* placeholders <%vk_gamma_abc_length%>, <%vk_gamma_abc_pts%> and
\* <%vk_input_length%> are still present, in the V1 and in the V2 template.
AfterAlpha == Filled(TemplateOf(abi), "<%vk_alpha%>", G1Affine_to_string(vk.alpha))
AfterBeta == Filled(AfterAlpha, "<%vk_beta%>", G2Affine_to_string(vk.beta))
AfterGamma == Filled(AfterBeta, "<%vk_gamma%>", G2Affine_to_string(vk.gamma))
AfterDelta == Filled(AfterGamma, "<%vk_delta%>", G2Affine_to_string(vk.delta))

C3_PositionalSubstitution ==
    /\ pc = "beta" => template_text = AfterAlpha
    /\ pc = "gamma" => template_text = AfterBeta
    /\ pc = "delta" => template_text = AfterGamma
    /\ pc = "gamma_abc_length" =>
          /\ template_text = AfterDelta
          /\ Count(template_text, "<%vk_gamma_abc_length%>") = 1
          /\ Count(template_text, "<%vk_gamma_abc_pts%>") = 1
          /\ Count(template_text, "<%vk_input_length%>") = 1

\* The part of C3 that the code keeps: the four substitutions are the named
\* ones, and consume none of the placeholders the template holds.
C3_NamedOnly ==
    /\ pc = "beta" => template_text = AfterAlpha
    /\ pc = "gamma" => template_text = AfterBeta
    /\ pc = "delta" => template_text = AfterGamma
    /\ pc = "gamma_abc_length" =>
          /\ template_text = AfterDelta
          /\ \A ph \in {"<%vk_gamma_abc_length%>", "<%vk_gamma_abc_pts%>",
                        "<%vk_input_length%>"} :
                Count(template_text, ph) = Count(TemplateOf(abi), ph)

\* C4: with no public input (one entry in gamma_abc) the contract is well
\* formed for V1 and for V2: verifyTx takes the proof argument(s) only, has
\* no input-copy loop, no placeholder is left, and verifyTx names no `input`
\* that it does not declare.
C4_NoInputContract ==
    (pc = "done" /\ Len(vk.gamma_abc) = 1) =>
        /\ InputDecls(VerifyTx(verifier)) = {}
        /\ abi = "V1" =>
              Count(verifier, "uint[2] memory c\n        ) public view") = 1
        /\ abi = "V2" =>
              Count(verifier, "Proof memory proof\n        ) public view") = 1
        /\ InputCopyLoops(verifier) = 0
        /\ Count(verifier, "<%") = 0
        /\ WordOcc(VerifyTx(verifier), "input") # {} =>
              InputDecls(VerifyTx(verifier)) # {}

\* C5 as stated: a key with one public input (two entries in gamma_abc) gets
\* exactly one assignment statement, and no separator after the last.
C5_OneAssignment ==
    (pc = "done" /\ Len(vk.gamma_abc) = 2) =>
        /\ Count(gamma_abc_repeat_text, "] = Pairing.G1Point(") = 1
        /\ EndsWith(gamma_abc_repeat_text, ");")

\* C5 amended: a key with one public input (two entries in gamma_abc) gets
\* exactly two assignment statements, one per entry, with one separator
\* between them and none after the last.
C5_TwoAssignments ==
    (pc = "done" /\ Len(vk.gamma_abc) = 2) =>
        /\ Count(gamma_abc_repeat_text, "] = Pairing.G1Point(") = 2
        /\ Count(gamma_abc_repeat_text, "vk.gamma_abc[0] = ") = 1
        /\ Count(gamma_abc_repeat_text, "vk.gamma_abc[1] = ") = 1
        /\ Count(gamma_abc_repeat_text, "\n") = 1
        /\ EndsWith(gamma_abc_repeat_text, ");")
        /\ Count(verifier, ");\n        vk.gamma_abc[1] = ") = 1

C5_Witness ==
    /\ pc = "done"
    /\ Len(vk.gamma_abc) = 2
    /\ Count(verifier, "vk.gamma_abc[1] = Pairing.G1Point(uint256(") = 1

\* C6: <%vk_gamma_abc_pts%> is replaced by the n assignments
\* `vk.gamma_abc[i] = Pairing.G1Point(<text of gamma_abc[i]>);`, i = 0..n-1 in
\* entry order, a newline between two of them and none after the last, and
\* <%vk_gamma_abc_length%> by the decimal n.
C6_GammaAbc ==
    [][/\ pc = "gamma_abc_length" =>
            template_text' = Filled(template_text, "<%vk_gamma_abc_length%>",
                                    Decimal(Len(vk.gamma_abc)))
       /\ pc = "gamma_abc_pts" =>
            template_text' = Filled(template_text, "<%vk_gamma_abc_pts%>",
                                    AssignmentsFrom(vk.gamma_abc, 0))]_vars

C6_Witness ==
    /\ pc = "uint256"
    /\ Len(vk.gamma_abc) = 3
    /\ vk.gamma_abc[1] # vk.gamma_abc[2]
    /\ Count(template_text, AssignmentsFrom(vk.gamma_abc, 0) \o "\n    }") = 1
    /\ Count(template_text, "new Pairing.G1Point[](3);") = 1

\* C7: with n > 1 entries in gamma_abc, verifyTx has exactly one input-copy
\* loop and exactly one more parameter, `uint[n-1] memory input`, after the
\* proof argument(s); in V1 the inputValues buffer has size n-1.
C7_InputSplice ==
    (pc = "done" /\ Len(vk.gamma_abc) > 1) =>
        LET n == Len(vk.gamma_abc)
            arg == ", uint[" \o Decimal(n - 1) \o "] memory input\n        ) public view"
        IN  /\ InputCopyLoops(verifier) = 1
            /\ Count(verifier, "for(uint i = 0; i < input.length; i++){"
                               \o "\n            inputValues[i] = input[i];"
                               \o "\n        }") = 1
            /\ InputCopyLoops(VerifyTx(verifier)) = 1
            /\ Cardinality(InputDecls(VerifyTx(verifier))) = 1
            /\ abi = "V1" => Count(verifier, "uint[2] memory c" \o arg) = 1
            /\ abi = "V2" => Count(verifier, "Proof memory proof" \o arg) = 1
            /\ abi = "V1" =>
                  Count(verifier, "uint[] memory inputValues = new uint[]("
                                  \o Decimal(n - 1) \o ");") = 1
            /\ Count(verifier, "<%vk_input_length%>") = 0

C7_Witness ==
    /\ pc = "done"
    /\ abi = "V1"
    /\ Len(vk.gamma_abc) = 3
    /\ Count(verifier, "uint[2] memory input") = 1

\* the literal 0x (or 0X) and 64 hex digits stands at i
LiteralAt(s, i) ==
    /\ StartsAt(s, i, "0x") \/ StartsAt(s, i, "0X")
    /\ i + 65 <= Len(s)
    /\ \A k \in (i + 2)..(i + 65) : At(s, k) \in HexDigit

Literals(s) == {i \in Occ(s, "0") : LiteralAt(s, i)}

\* post is pre with every literal wrapped into uint256( ), once, and nothing
\* else touched: each character of pre is found in post, shifted by the
\* wrappers put before it
WrappedOnce(pre, post) ==
    LET lits == Literals(pre)
        before(p) == Cardinality({i \in lits : i + 65 < p})
        inside(p) == \E i \in lits : i <= p /\ p <= i + 65
        to(p) == p + 9 * before(p) + (IF inside(p) THEN 8 ELSE 0)
    IN  /\ Len(post) = Len(pre) + 9 * Cardinality(lits)
        /\ \A p \in 1..Len(pre) : At(post, to(p)) = At(pre, p)
        /\ \A i \in lits : /\ StartsAt(post, to(i) - 8, "uint256(")
                           /\ At(post, to(i) + 66) = ")"
        /\ Count(post, "uint256(") = Cardinality(lits)

\* C8: the last pass wraps every literal `0x` + 64 hex digits (either case)
\* of the template text into uint256( ), once, digits unchanged, no other text
\* altered; the result is the G2-addition library, the pairing library of the
\* ABI, then that text.
C8_WrapAndConcat ==
    [][/\ pc = "uint256" => WrappedOnce(template_text, template_text')
       /\ pc = "format" =>
            verifier' = SOLIDITY_G2_ADDITION_LIB
                        \o (IF abi = "V1" THEN SOLIDITY_PAIRING_LIB
                                          ELSE SOLIDITY_PAIRING_LIB_V2)
                        \o template_text]_vars

C8_Witness ==
    /\ pc = "done"
    /\ Len(vk.gamma_abc) = 2
    /\ Count(verifier, "uint256(0x") + Count(verifier, "uint256(0X") = 18
    /\ Cardinality(Literals(verifier)) = 19

(***************************************************************************)
(* Vocabulary of the properties of setup, generate_proof and verify.       *)
(***************************************************************************)
\* s without one leading 0x, if it has one
WithoutPrefix(s) == IF StartsAt(s, 1, "0x") THEN SubSeq(s, 3, Len(s)) ELSE s

\* s is the text of a scalar: an optional 0x, then base-16 digits of a value
\* below the modulus of the field
ScalarText(s) ==
    /\ Len(WithoutPrefix(s)) > 0
    /\ \A i \in 1..Len(WithoutPrefix(s)) : At(WithoutPrefix(s), i) \in HexDigit
    /\ Base16(WithoutPrefix(s)) < FrModulus

ScalarOf(s) == Base16(WithoutPrefix(s))

\* every point of the key and of the proof has valid coordinates and is on
\* its curve
PointsWellFormed(key, prf) ==
    /\ to_g1(key.alpha).ok
    /\ to_g2(key.beta).ok
    /\ to_g2(key.gamma).ok
    /\ to_g2(key.delta).ok
    /\ \A i \in 1..Len(key.gamma_abc) : to_g1(key.gamma_abc[i]).ok
    /\ to_g1(prf.proof.a).ok
    /\ to_g2(prf.proof.b).ok
    /\ to_g1(prf.proof.c).ok

WellFormed(key, prf) ==
    /\ PointsWellFormed(key, prf)
    /\ \A i \in 1..Len(prf.inputs) : ScalarText(prf.inputs[i])
    /\ Len(prf.inputs) = Len(key.gamma_abc) - 1

\* e(a, b) = e(alpha, beta) * e(vk_x, gamma) * e(c, delta) over the parsed
\* key, proof and inputs, vk_x = gamma_abc[0] + sum inputs[i] * gamma_abc[i+1]
PairingEquation(key, prf) ==
    LET scalars == [i \in 1..Len(prf.inputs) |-> ScalarOf(prf.inputs[i])]
        abc == [i \in 1..Len(key.gamma_abc) |-> G1Log(to_g1(key.gamma_abc[i]).v)]
        vk_x == abc[1] + Dot(Tail(abc), scalars, Len(scalars))
    IN  (G1Log(to_g1(prf.proof.a).v) * G2Log(to_g2(prf.proof.b).v)) % FrModulus
        = (G1Log(to_g1(key.alpha).v) * G2Log(to_g2(key.beta).v)
           + vk_x * G2Log(to_g2(key.gamma).v)
           + G1Log(to_g1(prf.proof.c).v) * G2Log(to_g2(key.delta).v)) % FrModulus

\* C1: verify(keypair.vk, generate_proof(program, witness, keypair.pk)) is
\* true for every program and every witness satisfying it; the public_inputs
\* of the proof are texts verify parses, and there are len(gamma_abc) - 1.
C1_RoundTrip ==
    (stage = "verified" /\ given.name = "none") =>
        /\ ans = "true"
        /\ Len(proof.inputs) = Len(keypair.vk.gamma_abc) - 1
        /\ Len(public_inputs) = Len(proof.inputs)
        /\ \A i \in 1..Len(proof.inputs) :
              /\ ScalarText(proof.inputs[i])
              /\ public_inputs[i] = witness[i]

C1_Witness ==
    /\ stage = "verified"
    /\ given.name = "none"
    /\ program = ProductProgram
    /\ witness = <<2, 1, 2>>
    /\ ans = "true"

\* C2: verify returns a boolean only for well-formed input, and false only
\* when the pairing equation fails over the parsed input: a key or proof
\* point with an invalid or off-curve coordinate, a public input that is not
\* the text of a field element below the modulus, or a number of inputs other
\* than len(gamma_abc) - 1 makes the call abort.
C2_BooleanOnlyIfWellFormed ==
    stage = "verified" =>
        /\ ans \in {"true", "false"} => WellFormed(given.vk, given.proof)
        /\ ans = "false" => ~PairingEquation(given.vk, given.proof)
        /\ ~WellFormed(given.vk, given.proof) => ans = "abort"

\* What holds of C2 in the code: the same, the text of a public input being
\* taken without every leading 0x instead of without one.
C2_UpToRepeatedPrefix ==
    stage = "verified" =>
        LET prf == [given.proof EXCEPT !.inputs =
                       [i \in 1..Len(given.proof.inputs) |->
                           trim_start_matches(given.proof.inputs[i], "0x")]]
        IN  /\ ans \in {"true", "false"} <=> WellFormed(given.vk, prf)
            /\ ans = "false" => ~PairingEquation(given.vk, prf)
            /\ ans = "true" => PairingEquation(given.vk, prf)

\* C9: to_g2 exchanges the limbs of both coordinates (backend x from portable
\* (x.1, x.0), backend y from portable (y.1, y.0)), so that
\* to_g2(from_g2(p)) = p for every G2 point p the engine makes: beta, gamma
\* and delta of setup, and b of generate_proof.
G2RoundTrip(portable, p) ==
    /\ to_g2(portable) = [ok |-> TRUE, v |-> p]
    /\ ~p.infinity =>
          /\ p.x = <<from_hex(portable[1][2]), from_hex(portable[1][1])>>
          /\ p.y = <<from_hex(portable[2][2]), from_hex(portable[2][1])>>

C9_G2RoundTrip ==
    /\ stage \in {"keys", "proved", "verified"} =>
          /\ G2RoundTrip(keypair.vk.beta, keypair.pk.vk.beta_g2)
          /\ G2RoundTrip(keypair.vk.gamma, keypair.pk.vk.gamma_g2)
          /\ G2RoundTrip(keypair.vk.delta, keypair.pk.vk.delta_g2)
    /\ stage \in {"proved", "verified"} => G2RoundTrip(proof.proof.b, proof.raw.b)

C9_Witness ==
    /\ stage = "proved"
    /\ ~proof.raw.b.infinity
    /\ proof.raw.b.x[1] # proof.raw.b.x[2]
    /\ proof.proof.b[1] = <<to_hex(proof.raw.b.x[2]), to_hex(proof.raw.b.x[1])>>
    /\ to_g2(proof.proof.b).ok

\* C10: verify accepts a public-input text exactly when, without at most one
\* leading 0x, it is base-16 text of a value below the modulus, and the
\* scalar at position i of the pairing check is the value of public_inputs[i].
C10_OneOptionalPrefix ==
    (stage = "verified" /\ PointsWellFormed(given.vk, given.proof)) =>
        /\ Len(public_inputs) = Len(given.proof.inputs)
        /\ \A i \in 1..Len(given.proof.inputs) :
              /\ public_inputs[i] # -1 <=> ScalarText(given.proof.inputs[i])
              /\ ScalarText(given.proof.inputs[i]) =>
                    public_inputs[i] = ScalarOf(given.proof.inputs[i])

\* What holds of C10 in the code: a text is accepted exactly when, without
\* every leading 0x, it is base-16 text of a value below the modulus.
C10_EveryPrefix ==
    (stage = "verified" /\ PointsWellFormed(given.vk, given.proof)) =>
        /\ Len(public_inputs) = Len(given.proof.inputs)
        /\ \A i \in 1..Len(given.proof.inputs) :
              LET t == trim_start_matches(given.proof.inputs[i], "0x")
              IN  /\ public_inputs[i] # -1 <=> ScalarText(t) /\ ~StartsAt(t, 1, "0x")
                  /\ public_inputs[i] # -1 => public_inputs[i] = ScalarOf(t)

====
